---- MODULE Spec2Model ----
(***************************************************************************)
(* Chinese Postman action of the thor worker                               *)
(* (src/src/thor/chinese_postman_action.cc).                               *)
(*                                                                         *)
(* One solve, thor_worker_t::chinese_postman, as a state machine: the      *)
(* request's locations and avoid list are read, the candidate segments are *)
(* filtered and added to a ChinesePostmanGraph, and the solve then takes   *)
(* the ideal branch (Eulerian circuit, then buildPath and the recost       *)
(* service) or the non-ideal branch (computeFloydWarshall).                *)
(*                                                                         *)
(* ChinesePostmanGraph (thor/chinese_postman_graph.h) and                  *)
(* sif::recost_forward (sif/recost.h) are not among the source files; they *)
(* are modelled from the specification text (sections 3, 4.1, 4.3, 6).     *)
(***************************************************************************)
EXTENDS Integers, Sequences, FiniteSets

\* ------------------------------------------------------------------ bounds

\* Longest list of candidate segments (co->chinese_edges()) of a request.
MaxCand == 4

\* How often recost_forward may call the edge supplier again once the supplier
\* has reached its end.
MaxPullsAfterEnd == 2

\* ------------------------------------------------- graph storage (fixture)

\* The default-constructed GraphId (GraphId{}), which Is_Valid() rejects.  The
\* model writes it 0; every valid identifier below is positive.
InvalidGraphId == 0

\* Node identifiers of the road network read through the GraphReader.
Nodes == {1, 2, 3}

\* Directed-edge identifiers of the road network.
EdgeIds == {1, 2, 3, 4, 5, 10, 11}

\* reader->edge_startnode(id)
edge_startnode(e) ==
  CASE e = 1 -> 1 [] e = 2 -> 2 [] e = 3 -> 2 [] e = 4 -> 3
    [] e = 5 -> 3 [] e = 10 -> 3 [] e = 11 -> 1

\* reader->edge_endnode(id)
edge_endnode(e) ==
  CASE e = 1 -> 2 [] e = 2 -> 1 [] e = 3 -> 3 [] e = 4 -> 1
    [] e = 5 -> 3 [] e = 10 -> 2 [] e = 11 -> 3

\* reader->directededge(id)->forward()
forward(e) == e # 11

\* reader->nodeinfo(node)->latlng(...): the coordinates of a node, <<lng, lat>>.
getPointLL(node) == <<10 * node, 5>>

\* --------------------------------------------------------------- the request

\* A correlated location: its coordinates and its candidate path edges.
PathEdge(e, pct) == [graph_id |-> e, percent_along |-> pct]

LocA ==
  [ll |-> <<10, 5>>,
   path_edges |-> <<PathEdge(1, 0), PathEdge(2, 100), PathEdge(3, 25), PathEdge(4, 50),
                    PathEdge(5, 75), PathEdge(10, 10), PathEdge(11, 0)>>]

LocB == [ll |-> <<20, 5>>, path_edges |-> <<PathEdge(1, 50)>>]

\* request.options().locations(): two correlated locations.
LocationChoices == {<<LocA, LocA>>, <<LocA, LocB>>, <<LocB, LocA>>}

\* co->avoid_edges(): the identifiers of the excluded segments.
AvoidChoices == {<<>>, <<2, 10>>}

\* ---------------------------------------------------------------- helpers

\* midgard::PointLL{l.ll().lng(), l.ll().lat()}
to_ll(l) == <<l.ll[1], l.ll[2]>>

\* std::to_string(GraphId(id)): the decimal digits of the identifier's value.
RECURSIVE to_string(_)
to_string(n) == IF n < 10 THEN <<n>> ELSE to_string(n \div 10) \o <<n % 10>>

\* ------------------------------------------------------ ChinesePostmanGraph

\* ChinesePostmanGraph G; (a fresh graph)
EmptyGraph == [vertices |-> {}, balance |-> <<>>, edges |-> <<>>]

\* addVertex(id): an idempotent upsert; a new vertex starts with balance 0.
addVertex(g, id) ==
  IF id \in g.vertices
    THEN g
    ELSE [g EXCEPT !.vertices = @ \cup {id},
                   !.balance = [v \in g.vertices \cup {id} |->
                                  IF v = id THEN 0 ELSE g.balance[v]]]

\* addEdge with the target's balance left alone.
addEdge_keepsTarget(g, s, t, eid) ==
  LET g1 == addVertex(addVertex(g, s), t)
  IN  [g1 EXCEPT !.balance = [@ EXCEPT ![s] = @ + 1],
                 !.edges = Append(@, [source |-> s, target |-> t, id |-> eid])]

\* addEdge(source, target, edge): inserts the endpoints if absent, adds 1 to the
\* source's balance, then subtracts 1 from the target's, and stores the edge.
addEdge(g, s, t, eid) ==
  LET g1 == addVertex(addVertex(g, s), t)
      b1 == [g1.balance EXCEPT ![s] = @ + 1]
      b2 == [b1 EXCEPT ![t] = @ - 1]
  IN  [g1 EXCEPT !.balance = b2,
                 !.edges = Append(@, [source |-> s, target |-> t, id |-> eid])]

numVertices(g) == Cardinality(g.vertices)

numEdges(g) == Len(g.edges)

\* getUnbalancedVertices(): vertex id -> balance, the nonzero entries only.
getUnbalancedVertices(g) ==
  [v \in {w \in g.vertices : g.balance[w] # 0} |-> g.balance[v]]

\* The elements of a finite set of integers in ascending order: the order in
\* which the unbalanced vertices are iterated.
RECURSIVE Ascending(_)
Ascending(S) ==
  IF S = {} THEN <<>>
  ELSE LET m == CHOOSE x \in S : \A y \in S : x <= y
       IN  <<m>> \o Ascending(S \ {m})

\* The unused outgoing edges (as indices into g.edges) of vertex v.
OutEdges(g, v, used) ==
  {i \in DOMAIN g.edges : g.edges[i].source = v /\ i \notin used}

\* The unused outgoing edge of v that comes first: by segment id, then by
\* insertion order.
NextEdge(g, v, used) ==
  CHOOSE i \in OutEdges(g, v, used) :
    \A j \in OutEdges(g, v, used) :
      \/ g.edges[i].id < g.edges[j].id
      \/ (g.edges[i].id = g.edges[j].id /\ i <= j)

\* Hierholzer's construction with an explicit stack.  A stack entry is a vertex
\* and the edge by which the walk arrived there (0 for the start).  While the
\* vertex on top has an unused outgoing edge the walk follows it; otherwise the
\* vertex is popped and its arrival edge is put in front of the circuit, which
\* splices every sub-walk in at the vertex it started from.
RECURSIVE Hierholzer(_, _, _, _)
Hierholzer(g, stack, used, circuit) ==
  IF stack = <<>> THEN circuit
  ELSE LET top == stack[Len(stack)]
       IN  IF OutEdges(g, top.vertex, used) # {}
             THEN LET i == NextEdge(g, top.vertex, used)
                  IN  Hierholzer(g,
                                 Append(stack, [vertex |-> g.edges[i].target, via |-> i]),
                                 used \cup {i}, circuit)
             ELSE Hierholzer(g, SubSeq(stack, 1, Len(stack) - 1), used,
                             IF top.via = 0 THEN circuit ELSE <<top.via>> \o circuit)

\* A single walk from the start that stops where it first gets stuck, with no
\* splicing of further sub-walks.
RECURSIVE SingleWalk(_, _, _, _)
SingleWalk(g, v, used, circuit) ==
  IF OutEdges(g, v, used) = {} THEN circuit
  ELSE LET i == NextEdge(g, v, used)
       IN  SingleWalk(g, g.edges[i].target, used \cup {i}, Append(circuit, i))

\* The walk without splicing.
EulerWalk_noSplice(g, start_vertex) == SingleWalk(g, start_vertex, {}, <<>>)

\* The walk in the order in which the stack was popped, never turned round.
EulerWalk_popOrder(g, start_vertex) ==
  LET c == Hierholzer(g, <<[vertex |-> start_vertex, via |-> 0]>>, {}, <<>>)
  IN  [k \in DOMAIN c |-> c[Len(c) + 1 - k]]

\* The walk over every edge from start_vertex, as indices into g.edges.
EulerWalk(g, start_vertex) ==
  Hierholzer(g, <<[vertex |-> start_vertex, via |-> 0]>>, {}, <<>>)

\* computeIdealEulerCycle(start_vertex): the circuit's segment identifiers, or
\* the failure raised: the start vertex is not in the graph, or edges remain
\* that the walk could not reach.
computeIdealEulerCycle(g, start_vertex) ==
  IF start_vertex \notin g.vertices
    THEN [err |-> "missing_origin", cycle |-> <<>>]
    ELSE LET c == EulerWalk(g, start_vertex)
         IN  IF Len(c) < Len(g.edges)
               THEN [err |-> "disconnected", cycle |-> <<>>]
               ELSE [err |-> "none", cycle |-> [k \in DOMAIN c |-> g.edges[c[k]].id]]

VARIABLES
  locations,            \* request.options().locations()
  avoid_edges,          \* co->avoid_edges()
  chinese_edges,        \* the prefix of co->chinese_edges() the loop has consumed
  pc,                   \* position in chinese_postman / buildPath
  it,                   \* the iterator over the locations (1-based index)
  originLocation,
  destinationLocation,
  avoid_edge_ids,       \* std::list<std::string>
  originNodeFound,
  originVertex,
  G,                    \* the ChinesePostmanGraph
  edgeGraphIds,         \* the circuit computeIdealEulerCycle returned
  eulerCalls,           \* calls of computeIdealEulerCycle
  overPoints,
  underPoints,
  fwCalls,              \* calls of computeFloydWarshall
  matrixCalls,          \* calls of the matrix service
  matrixRequest,        \* the request computeFloydWarshall built for the matrix service
  path_edges,           \* buildPath's copy of the circuit
  source_pct,           \* percent along the first edge, once looked up
  target_pct,           \* percent along the last edge, once looked up
  edge_itr,             \* buildPath's iterator into path_edges (1-based index)
  path,                 \* the PathInfo entries label_cb has accumulated
  pulled,               \* the identifiers edge_cb has returned, call by call
  recostCalls,          \* calls of sif::recost_forward
  recostThrew,          \* recost_forward raised
  logged,               \* LOG_ERROR lines written
  printed,              \* the path entries buildPath wrote out
  error                 \* the exception that left chinese_postman, if any

vars ==
  <<locations, avoid_edges, chinese_edges, pc, it, originLocation, destinationLocation,
    avoid_edge_ids, originNodeFound, originVertex, G, edgeGraphIds, eulerCalls, overPoints,
    underPoints, fwCalls, matrixCalls, matrixRequest, path_edges, source_pct, target_pct, edge_itr, path,
    recostCalls, recostThrew, logged, printed, error, pulled>>

\* ------------------------------------------------------------ initial state

Init ==
  /\ locations \in LocationChoices
  /\ avoid_edges \in AvoidChoices
  /\ chinese_edges = <<>>
  /\ pc = "start"
  /\ it = 1
  /\ originLocation = [ll |-> <<0, 0>>, path_edges |-> <<>>]
  /\ destinationLocation = [ll |-> <<0, 0>>, path_edges |-> <<>>]
  /\ avoid_edge_ids = <<>>
  /\ originNodeFound = FALSE
  /\ originVertex = InvalidGraphId
  /\ G = EmptyGraph
  /\ edgeGraphIds = <<>>
  /\ eulerCalls = 0
  /\ overPoints = <<>>
  /\ underPoints = <<>>
  /\ fwCalls = 0
  /\ matrixCalls = 0
  /\ matrixRequest = [sources |-> <<>>, targets |-> <<>>]
  /\ path_edges = <<>>
  /\ source_pct = -1
  /\ target_pct = -1
  /\ edge_itr = 1
  /\ path = <<>>
  /\ pulled = <<>>
  /\ recostCalls = 0
  /\ recostThrew = FALSE
  /\ logged = 0
  /\ printed = <<>>
  /\ error = "none"

\* ------------------------------------------------------- chinese_postman

\* auto it = correlated.begin(); auto origin = &it; it++; auto destination = &it;
\* origin and destination both point at the iterator `it`, so each is read
\* through the iterator's value at the time of the read.
ReadLocations ==
  /\ pc = "start"
  /\ LET it1 == it + 1
         origin == it1
         destination == it1
     IN  /\ it' = it1
         /\ originLocation' = locations[origin]
         /\ destinationLocation' = locations[destination]
  /\ pc' = "avoid"
  /\ UNCHANGED <<locations, avoid_edges, chinese_edges, avoid_edge_ids, originNodeFound,
                 originVertex, G, edgeGraphIds, eulerCalls, overPoints, underPoints, fwCalls,
                 matrixCalls, matrixRequest, path_edges, source_pct, target_pct, edge_itr, path,
                 recostCalls, recostThrew, logged, printed, error,
                 pulled>>

\* for (auto& avoid_edge : co->avoid_edges()) avoid_edge_ids.push_back(to_string(...))
ParseAvoid ==
  /\ pc = "avoid"
  /\ avoid_edge_ids' = [i \in DOMAIN avoid_edges |-> to_string(avoid_edges[i])]
  /\ originNodeFound' = FALSE
  /\ originVertex' = InvalidGraphId
  /\ pc' = "loop"
  /\ UNCHANGED <<locations, avoid_edges, chinese_edges, it, originLocation,
                 destinationLocation, G, edgeGraphIds, eulerCalls, overPoints, underPoints,
                 fwCalls, matrixCalls, matrixRequest, path_edges, source_pct, target_pct, edge_itr, path,
                 recostCalls, recostThrew, logged, printed, error,
                 pulled>>

\* std::find(avoid_edge_ids.begin(), avoid_edge_ids.end(), to_string(id)) != end
found(ids, e) == \E i \in DOMAIN ids : ids[i] = to_string(e)

\* A filter that looks at the direction only.
Skipped_directionOnly(ids, e) == ~forward(e)

\* The two `continue`s of the loop: the edge is not forward, or it is avoided.
Skipped(ids, e) == ~forward(e) \/ found(ids, e)

\* One iteration of `for (auto& edge : co->chinese_edges())`.
AddChineseEdge(e) ==
  /\ pc = "loop"
  /\ Len(chinese_edges) < MaxCand
  /\ chinese_edges' = Append(chinese_edges, e)
  /\ IF Skipped(avoid_edge_ids, e)
       THEN UNCHANGED <<originNodeFound, originVertex, G>>
       ELSE LET start_vertex == edge_startnode(e)
                end_vertex == edge_endnode(e)
            IN  /\ originVertex' = IF ~originNodeFound THEN start_vertex ELSE originVertex
                /\ originNodeFound' = TRUE
                /\ G' = addEdge(addVertex(addVertex(G, start_vertex), end_vertex),
                                start_vertex, end_vertex, e)
  /\ UNCHANGED <<locations, avoid_edges, pc, it, originLocation, destinationLocation,
                 avoid_edge_ids, edgeGraphIds, eulerCalls, overPoints, underPoints, fwCalls,
                 matrixCalls, matrixRequest, path_edges, source_pct, target_pct, edge_itr, path,
                 recostCalls, recostThrew, logged, printed, error,
                 pulled>>

\* The loop has consumed the whole candidate list.
EndOfCandidates ==
  /\ pc = "loop"
  /\ pc' = "check"
  /\ UNCHANGED <<locations, avoid_edges, chinese_edges, it, originLocation,
                 destinationLocation, avoid_edge_ids, originNodeFound, originVertex, G,
                 edgeGraphIds, eulerCalls, overPoints, underPoints, fwCalls, matrixCalls, matrixRequest,
                 path_edges, source_pct, target_pct, edge_itr, path, recostCalls,
                 recostThrew, logged, printed, error,
                 pulled>>

\* The branch taken whenever the graph has no vertex at all.
IsIdeal_noVertices(g) == numVertices(g) = 0

\* if (G.getUnbalancedVertices().size() == 0)
IsIdeal(g) == Cardinality(DOMAIN getUnbalancedVertices(g)) = 0

\* A failure of the circuit builder that is swallowed.
AfterEuler_swallowed(r) == "buildPath"

\* Where the solve goes after computeIdealEulerCycle: nothing catches what it
\* throws, so a failure leaves chinese_postman.
AfterEuler(r) == IF r.err # "none" THEN "failed" ELSE "buildPath"

\* The ideal branch up to the call of buildPath.
IdealBranch ==
  /\ pc = "check"
  /\ IsIdeal(G)
  /\ LET r == computeIdealEulerCycle(G, originVertex)
     IN  /\ eulerCalls' = eulerCalls + 1
         /\ pc' = AfterEuler(r)
         /\ error' = IF AfterEuler(r) = "failed" THEN r.err ELSE error
         /\ edgeGraphIds' = IF AfterEuler(r) = "failed" THEN edgeGraphIds ELSE r.cycle
         /\ path_edges' = IF AfterEuler(r) = "failed" THEN path_edges ELSE r.cycle
  /\ UNCHANGED <<locations, avoid_edges, chinese_edges, it, originLocation,
                 destinationLocation, avoid_edge_ids, originNodeFound, originVertex, G,
                 overPoints, underPoints, fwCalls, matrixCalls, matrixRequest, source_pct, target_pct,
                 edge_itr, path, recostCalls, recostThrew, logged, printed,
                 pulled>>

\* pointLLToJson: {"lat": l.lat(), "lon": l.lng()}
pointLLToJson(l) == [lat |-> l[2], lon |-> l[1]]

\* locationsToJson: the points as a JSON array, in order.
locationsToJson(ls) == [i \in DOMAIN ls |-> pointLLToJson(ls[i])]

\* The request with its first argument as the targets and its second as the
\* sources.
computeFloydWarshall_swapped(sources, targets) ==
  [sources |-> locationsToJson(targets), targets |-> locationsToJson(sources)]

\* computeFloydWarshall(sources, targets, costing): the matrix request
\* {"sources": ..., "targets": ..., "costing": ...} handed to the matrix service.
computeFloydWarshall(sources, targets) ==
  [sources |-> locationsToJson(sources), targets |-> locationsToJson(targets)]

\* The coordinates of the vertices of vs, in order.
PointsOf(vs) == [i \in DOMAIN vs |-> getPointLL(vs[i])]

\* The non-ideal branch: the unbalanced vertices are sorted into overPoints
\* (balance > 0) and underPoints (balance < 0), and computeFloydWarshall asks
\* the matrix service for the distances, once to print them and once more to
\* return them.
NonIdealBranch ==
  /\ pc = "check"
  /\ ~IsIdeal(G)
  /\ LET u == getUnbalancedVertices(G)
         order == Ascending(DOMAIN u)
     IN  /\ overPoints' = PointsOf(SelectSeq(order, LAMBDA v : u[v] > 0))
         /\ underPoints' = PointsOf(SelectSeq(order, LAMBDA v : u[v] < 0))
  /\ fwCalls' = fwCalls + 1
  /\ matrixRequest' = computeFloydWarshall(overPoints', underPoints')
  /\ matrixCalls' = matrixCalls + 2
  /\ pc' = "done"
  /\ UNCHANGED <<locations, avoid_edges, chinese_edges, it, originLocation,
                 destinationLocation, avoid_edge_ids, originNodeFound, originVertex, G,
                 edgeGraphIds, eulerCalls, path_edges, source_pct, target_pct, edge_itr,
                 path, recostCalls, recostThrew, logged, printed, error,
                 pulled>>

\* ------------------------------------------------------------- buildPath

\* The index of the first path edge of the location that is edge_id, 0 if none.
FirstMatch(location, edge_id) ==
  LET hits == {i \in DOMAIN location.path_edges :
                 location.path_edges[i].graph_id = edge_id}
  IN  IF hits = {} THEN 0 ELSE CHOOSE i \in hits : \A j \in hits : i <= j

\* A lookup that answers 0 when no candidate edge matches.
find_percent_along_orZero(location, edge_id) ==
  IF FirstMatch(location, edge_id) = 0
    THEN [thrown |-> FALSE, pct |-> 0]
    ELSE [thrown |-> FALSE,
          pct |-> location.path_edges[FirstMatch(location, edge_id)].percent_along]

\* find_percent_along(location, edge_id): the percent_along of the first
\* candidate edge that is edge_id; throws when there is none.
find_percent_along(location, edge_id) ==
  IF FirstMatch(location, edge_id) = 0
    THEN [thrown |-> TRUE, pct |-> -1]
    ELSE [thrown |-> FALSE,
          pct |-> location.path_edges[FirstMatch(location, edge_id)].percent_along]

\* path_edges.front(): on an empty vector the call is undefined, and may yield
\* any identifier.
front(s) == IF s = <<>> THEN EdgeIds \cup {InvalidGraphId} ELSE {s[1]}

\* path_edges.back(), likewise.
back(s) == IF s = <<>> THEN EdgeIds \cup {InvalidGraphId} ELSE {s[Len(s)]}

\* The two lookups of buildPath and, when both succeed, the call of
\* sif::recost_forward.
BuildPathLookup ==
  /\ pc = "buildPath"
  /\ \E f \in front(path_edges), b \in back(path_edges) :
       LET src == find_percent_along(originLocation, f)
           tgt == find_percent_along(destinationLocation, b)
       IN  IF src.thrown
             THEN /\ pc' = "failed"
                  /\ error' = "origin_label"
                  /\ UNCHANGED <<source_pct, target_pct, recostCalls>>
             ELSE IF tgt.thrown
               THEN /\ pc' = "failed"
                    /\ error' = "destination_label"
                    /\ source_pct' = src.pct
                    /\ UNCHANGED <<target_pct, recostCalls>>
               ELSE /\ pc' = "recost"
                    /\ source_pct' = src.pct
                    /\ target_pct' = tgt.pct
                    /\ recostCalls' = recostCalls + 1
                    /\ UNCHANGED error
  /\ UNCHANGED <<locations, avoid_edges, chinese_edges, it, originLocation,
                 destinationLocation, avoid_edge_ids, originNodeFound, originVertex, G,
                 edgeGraphIds, eulerCalls, overPoints, underPoints, fwCalls, matrixCalls, matrixRequest,
                 path_edges, edge_itr, path, recostThrew, logged, printed,
                 pulled>>

\* edge_cb: (edge_itr == path_edges.end()) ? GraphId{} : (*edge_itr++)
edge_cb_value(s, i) == IF i = Len(s) + 1 THEN InvalidGraphId ELSE s[i]

\* The supplier with the iterator never advanced.
edge_cb_next_stays(s, i) == i

\* edge_cb: where the iterator stands after the call.
edge_cb_next(s, i) == IF i = Len(s) + 1 THEN i ELSE i + 1

\* label_cb: path.emplace_back(mode, cost, edgeid, 0, restriction_idx,
\* transition_cost, recovered_inner_edges.count(edgeid)); the set of recovered
\* inner edges is empty throughout.
label_cb(p, edgeid) ==
  Append(p, [edgeid |-> edgeid, path_id |-> 0, start_node_recovered |-> FALSE])

\* recost_forward pulls the next edge; on a valid one it hands a label to
\* label_cb, on the end sentinel it returns to buildPath.
RecostEdge ==
  /\ pc = "recost"
  /\ LET e == edge_cb_value(path_edges, edge_itr)
     IN  /\ edge_itr' = edge_cb_next(path_edges, edge_itr)
         /\ pulled' = Append(pulled, e)
         /\ IF e = InvalidGraphId
              THEN /\ pc' = "print"
                   /\ UNCHANGED path
              ELSE /\ path' = label_cb(path, e)
                   /\ UNCHANGED pc
  /\ UNCHANGED <<locations, avoid_edges, chinese_edges, it, originLocation,
                 destinationLocation, avoid_edge_ids, originNodeFound, originVertex, G,
                 edgeGraphIds, eulerCalls, overPoints, underPoints, fwCalls, matrixCalls, matrixRequest,
                 path_edges, source_pct, target_pct, recostCalls, recostThrew, logged,
                 printed, error>>

\* recost_forward asks the supplier again although the supplier is at its end.
RecostPullsAtEnd ==
  /\ pc = "recost"
  /\ edge_cb_value(path_edges, edge_itr) = InvalidGraphId
  /\ Len(pulled) < Len(path_edges) + MaxPullsAfterEnd
  /\ pulled' = Append(pulled, edge_cb_value(path_edges, edge_itr))
  /\ edge_itr' = edge_cb_next(path_edges, edge_itr)
  /\ UNCHANGED <<locations, avoid_edges, chinese_edges, pc, it, originLocation,
                 destinationLocation, avoid_edge_ids, originNodeFound, originVertex, G,
                 edgeGraphIds, eulerCalls, overPoints, underPoints, fwCalls, matrixCalls,
                 matrixRequest, path_edges, source_pct, target_pct, path, recostCalls,
                 recostThrew, logged, printed, error>>

\* recost_forward raises; buildPath catches the exception, writes an error line
\* to the log and goes on.
RecostThrows ==
  /\ pc = "recost"
  /\ recostThrew' = TRUE
  /\ logged' = logged + 1
  /\ pc' = "print"
  /\ UNCHANGED <<locations, avoid_edges, chinese_edges, it, originLocation,
                 destinationLocation, avoid_edge_ids, originNodeFound, originVertex, G,
                 edgeGraphIds, eulerCalls, overPoints, underPoints, fwCalls, matrixCalls, matrixRequest,
                 path_edges, source_pct, target_pct, edge_itr, path, recostCalls, printed,
                 error,
                 pulled>>

\* for (auto p : path) std::cout << ...; then buildPath and chinese_postman return.
PrintPath ==
  /\ pc = "print"
  /\ printed' = path
  /\ pc' = "done"
  /\ UNCHANGED <<locations, avoid_edges, chinese_edges, it, originLocation,
                 destinationLocation, avoid_edge_ids, originNodeFound, originVertex, G,
                 edgeGraphIds, eulerCalls, overPoints, underPoints, fwCalls, matrixCalls, matrixRequest,
                 path_edges, source_pct, target_pct, edge_itr, path, recostCalls,
                 recostThrew, logged, error,
                 pulled>>

Next ==
  \/ ReadLocations
  \/ ParseAvoid
  \/ \E e \in EdgeIds : AddChineseEdge(e)
  \/ EndOfCandidates
  \/ IdealBranch
  \/ NonIdealBranch
  \/ BuildPathLookup
  \/ RecostEdge
  \/ RecostPullsAtEnd
  \/ RecostThrows
  \/ PrintPath

Spec == Init /\ [][Next]_vars

\* ------------------------------------------------------------ properties

\* The elements of a sequence.
Range(s) == {s[i] : i \in DOMAIN s}

\* How often x occurs in the sequence s.
Count(s, x) == Cardinality({i \in DOMAIN s : s[i] = x})

\* The segment identifiers of the graph's edges, in insertion order.
EdgeIdsOf(g) == [i \in DOMAIN g.edges |-> g.edges[i].id]

OutDegree(g, v) == Cardinality({i \in DOMAIN g.edges : g.edges[i].source = v})

InDegree(g, v) == Cardinality({i \in DOMAIN g.edges : g.edges[i].target = v})

\* Every vertex has as many outgoing as incoming edges.
Balanced(g) == \A v \in g.vertices : OutDegree(g, v) = InDegree(g, v)

RECURSIVE SumBalance(_, _)
SumBalance(g, S) ==
  IF S = {} THEN 0
  ELSE LET v == CHOOSE x \in S : TRUE IN g.balance[v] + SumBalance(g, S \ {v})

\* The vertices reachable from those of S along edges.
RECURSIVE ReachFrom(_, _)
ReachFrom(g, S) ==
  LET T == S \cup {g.edges[i].target : i \in {j \in DOMAIN g.edges : g.edges[j].source \in S}}
  IN  IF T = S THEN S ELSE ReachFrom(g, T)

\* The graph has a vertex, and every vertex reaches every other.
StronglyConnected(g) ==
  /\ g.vertices # {}
  /\ \A v \in g.vertices : ReachFrom(g, {v}) = g.vertices

\* The location has a candidate path edge with this identifier.
HasPathEdge(location, e) ==
  \E i \in DOMAIN location.path_edges : location.path_edges[i].graph_id = e

\* The segment is forward and not in the request's avoid list.
Qualifies(e) == forward(e) /\ e \notin Range(avoid_edges)

\* The circuit builder has run on a balanced, strongly connected graph.
BuilderRanOnEulerian == eulerCalls = 1 /\ Balanced(G) /\ StronglyConnected(G)

\* C1: after any sequence of addEdge calls on a fresh graph, parallel edges and
\* self-loops included, every vertex's balance is the number of edges leaving
\* it minus the number entering it, and the balances sum to 0.
C1_BalanceSumZero ==
  /\ SumBalance(G, G.vertices) = 0
  /\ \A v \in G.vertices : G.balance[v] = OutDegree(G, v) - InDegree(G, v)

\* A graph with a self-loop, a pair of parallel edges and an unbalanced vertex.
C1_Witness ==
  /\ \E i \in DOMAIN G.edges : G.edges[i].source = G.edges[i].target
  /\ \E i, j \in DOMAIN G.edges : i # j /\ G.edges[i] = G.edges[j]
  /\ \E v \in G.vertices : G.balance[v] # 0

\* C2: during graph construction a candidate is added if and only if it is
\* forward and not in the avoid set: the graph's edges are, in order, exactly
\* the qualifying candidates consumed so far, one edge per occurrence, each
\* between the segment's start and end node.
C2_ExactlyTheQualifying ==
  /\ EdgeIdsOf(G) = SelectSeq(chinese_edges, Qualifies)
  /\ \A i \in DOMAIN G.edges :
       /\ forward(G.edges[i].id)
       /\ G.edges[i].id \notin Range(avoid_edges)
       /\ G.edges[i].source = edge_startnode(G.edges[i].id)
       /\ G.edges[i].target = edge_endnode(G.edges[i].id)

\* The candidates held an avoided segment, a segment that is not forward and a
\* qualifying segment twice.
C2_Witness ==
  /\ pc = "check"
  /\ \E i \in DOMAIN chinese_edges : chinese_edges[i] \in Range(avoid_edges)
  /\ \E i \in DOMAIN chinese_edges : ~forward(chinese_edges[i])
  /\ \E i, j \in DOMAIN G.edges : i # j /\ G.edges[i].id = G.edges[j].id

\* C3: for a balanced, strongly connected multigraph with E edges the circuit
\* computeIdealEulerCycle returns has length E and holds every segment as often
\* as the graph holds an edge of it.
C3_CircuitCoversEveryEdgeOnce ==
  BuilderRanOnEulerian =>
    /\ error \notin {"missing_origin", "disconnected"}
    /\ Len(edgeGraphIds) = numEdges(G)
    /\ \A e \in EdgeIds : Count(edgeGraphIds, e) = Count(EdgeIdsOf(G), e)

\* A circuit over a graph with parallel edges.
C3_Witness ==
  /\ BuilderRanOnEulerian
  /\ Len(edgeGraphIds) >= 4
  /\ \E e \in EdgeIds : Count(edgeGraphIds, e) = 2

\* C4: for a balanced, strongly connected multigraph the circuit is a closed
\* continuous walk from the origin vertex: the first edge leaves the origin,
\* every edge ends where the next one starts, and the last edge ends at the
\* origin.
C4_ClosedWalkFromOrigin ==
  BuilderRanOnEulerian =>
    /\ edgeGraphIds # <<>>
    /\ edge_startnode(edgeGraphIds[1]) = originVertex
    /\ \A k \in 1..(Len(edgeGraphIds) - 1) :
         edge_endnode(edgeGraphIds[k]) = edge_startnode(edgeGraphIds[k + 1])
    /\ edge_endnode(edgeGraphIds[Len(edgeGraphIds)]) = originVertex

\* A circuit the builder had to splice: the walk 1, 2 returns to vertex 1 with
\* the edges 3 and 10 at vertex 2 still unused.
C4_Witness ==
  /\ BuilderRanOnEulerian
  /\ edgeGraphIds = <<1, 3, 10, 2>>

\* The solve has left the branch on the graph's balance behind.
PastBranch == pc \in {"buildPath", "recost", "print", "done", "failed"}

\* C5: computeFloydWarshall is called only when the constructed graph has an
\* unbalanced vertex; on a balanced graph the solve calls the circuit builder
\* once, goes on to buildPath and never calls the distance service.
C5_DistanceServiceOnlyIfUnbalanced ==
  /\ (fwCalls > 0 \/ matrixCalls > 0) => ~Balanced(G)
  /\ (PastBranch /\ Balanced(G)) => (fwCalls = 0 /\ matrixCalls = 0 /\ eulerCalls = 1)
  /\ recostCalls > 0 => (eulerCalls = 1 /\ fwCalls = 0)

\* A region of one-way segments that form the cycle 1 -> 2 -> 3 -> 1: the
\* solve ran to its end and wrote the three path entries out.
C5_Witness ==
  /\ chinese_edges = <<1, 3, 4>>
  /\ pc = "done"
  /\ Len(printed) = 3
  /\ fwCalls = 0

\* C6: after the non-ideal branch has run on an unbalanced graph, no vertex is
\* unbalanced any more.
C6_BalancedAfterResolver ==
  (pc = "done" /\ fwCalls > 0) => DOMAIN getUnbalancedVertices(G) = {}

\* C7: once recost_forward has raised, the solve does not end normally and no
\* path entry accumulated before the failure is written out.
C7_RecostFailureFailsTheSolve ==
  recostThrew => (pc # "done" /\ printed = <<>>)

\* buildPath has been entered with a circuit, and its lookups are over.
LookupsDone == path_edges # <<>> /\ pc \in {"recost", "print", "done", "failed"}

OriginEdgeMissing == ~HasPathEdge(originLocation, path_edges[1])

DestinationEdgeMissing == ~HasPathEdge(destinationLocation, path_edges[Len(path_edges)])

\* C8: if the origin has no candidate edge equal to the circuit's first edge,
\* or the destination none equal to its last, buildPath fails at once with
\* the error for that location: recost_forward is never called and no path
\* entry is produced.
C8_MissingCandidateEdgeFails ==
  (LookupsDone /\ (OriginEdgeMissing \/ DestinationEdgeMissing)) =>
    /\ pc = "failed"
    /\ error = IF OriginEdgeMissing THEN "origin_label" ELSE "destination_label"
    /\ recostCalls = 0
    /\ path = <<>>
    /\ printed = <<>>

\* The origin has the circuit's first edge and the destination lacks its last.
C8_Witness ==
  /\ LookupsDone
  /\ ~OriginEdgeMissing
  /\ DestinationEdgeMissing
  /\ error = "destination_label"

\* C9: if the origin vertex handed to the circuit builder is not in the graph,
\* the solve fails with the missing-origin error and buildPath is never
\* entered.
C9_MissingOriginFails ==
  (eulerCalls = 1 /\ originVertex \notin G.vertices) =>
    /\ pc = "failed"
    /\ error = "missing_origin"
    /\ path_edges = <<>>
    /\ recostCalls = 0

\* Every candidate of a non-empty list was filtered out, the origin vertex was
\* never set, and the builder has been called.
C9_Witness ==
  /\ eulerCalls = 1
  /\ Len(chinese_edges) >= 2
  /\ numEdges(G) = 0
  /\ ~originNodeFound
  /\ error = "missing_origin"

\* C10: on a balanced graph whose vertices are not all connected, the circuit
\* builder returns no circuit: the solve fails with the disconnected-region
\* error and buildPath is never entered.
C10_DisconnectedFails ==
  (eulerCalls = 1 /\ Balanced(G) /\ G.vertices # {} /\ ~StronglyConnected(G)) =>
    /\ pc = "failed"
    /\ error = "disconnected"
    /\ edgeGraphIds = <<>>
    /\ path_edges = <<>>
    /\ recostCalls = 0

\* Two disjoint balanced cycles: 1 -> 2 -> 1 and the self-loop at 3.
C10_Witness ==
  /\ eulerCalls = 1
  /\ Balanced(G)
  /\ G.vertices = {1, 2, 3}
  /\ ReachFrom(G, {1}) = {1, 2}
  /\ error = "disconnected"

\* The graph would be balanced with one more edge from u to v.
BalancedButFor(g, u, v) ==
  /\ {u, v} \subseteq g.vertices
  /\ \A w \in g.vertices :
       OutDegree(g, w) + (IF w = u THEN 1 ELSE 0) = InDegree(g, w) + (IF w = v THEN 1 ELSE 0)

\* The vertex's coordinates as they stand in the matrix request.
PointJson(v) == pointLLToJson(getPointLL(v))

Is_Valid(e) == e # InvalidGraphId

\* C12: called again and again, edge_cb yields the circuit's edges in circuit
\* order, each once, and from then on the invalid GraphId, with the iterator
\* left at the end; and the path holds one entry per label handed to label_cb,
\* in the order of the calls.
C12_SupplierYieldsCircuitThenSentinel ==
  /\ edge_itr \in 1..(Len(path_edges) + 1)
  /\ edge_itr = (IF Len(pulled) < Len(path_edges) THEN Len(pulled) ELSE Len(path_edges)) + 1
  /\ \A k \in DOMAIN pulled :
       pulled[k] = IF k <= Len(path_edges) THEN path_edges[k] ELSE InvalidGraphId
  /\ [k \in DOMAIN path |-> path[k].edgeid] = SelectSeq(pulled, Is_Valid)

\* A circuit of three edges or more was yielded whole, and the supplier was
\* then called three times more.
C12_Witness ==
  /\ Len(path_edges) >= 3
  /\ Len(pulled) = Len(path_edges) + 3
  /\ Len(path) = Len(path_edges)
  /\ pc = "done"

\* C13: the origin location handed to buildPath is the first location of the
\* request and the destination location the second: advancing the iterator to
\* reach the destination leaves the origin where it was.
C13_OriginIsFirstLocation ==
  pc # "start" =>
    /\ originLocation = locations[1]
    /\ destinationLocation = locations[2]

====
